---- MODULE Spec2Model ----
(***************************************************************************)
(* Model of the squad-goals entry page (SquadGoalEntryPage.tsx) and its    *)
(* boundary navigator (BoundaryNavigator.tsx): the partition context       *)
(* resolver, the boundary validator, sequencer and navigator, and the      *)
(* save / fetch handlers with their debounce timer and in-flight requests. *)
(*                                                                         *)
(* Strings are sequences of UTF-16 code units, so that the code's string   *)
(* comparisons, split(), parseInt() and toISOString() are computed rather  *)
(* than assumed.  Instants are whole hours since 1970-01-01T00:00Z.        *)
(* The string and date primitives are functions, and actions bind a        *)
(* computed boundary with \E b \in {...}, so that a value is computed once. *)
(***************************************************************************)
EXTENDS Integers, Sequences, FiniteSets, TLC

\* ------------------------------------------------------------------------
\* Bounds of the model
\* ------------------------------------------------------------------------
MaxDelta == 2
MaxSquadChanges == 1
MaxInFlight == 2
MaxCounter == 8

\* ------------------------------------------------------------------------
\* JavaScript values: null, NaN, number, string
\* ------------------------------------------------------------------------
Null == [k |-> "null", n |-> 0, s |-> <<>>]
NaN == [k |-> "nan", n |-> 0, s |-> <<>>]
Num(i) == [k |-> "num", n |-> i, s |-> <<>>]
Str(cs) == [k |-> "str", n |-> 0, s |-> cs]

ChDash == 45
ChT == 84
ChZero == 48

Digit(i) == ChZero + i
IsDigit(c) == c >= ChZero /\ c <= ChZero + 9

Pad2[i \in Int] == <<Digit((i \div 10) % 10), Digit(i % 10)>>
Pad4[i \in Int] == <<Digit((i \div 1000) % 10), Digit((i \div 100) % 10), Digit((i \div 10) % 10), Digit(i % 10)>>

DecStr[i \in Nat] == IF i < 10 THEN <<Digit(i)>> ELSE DecStr[i \div 10] \o <<Digit(i % 10)>>

\* String < String in JavaScript: lexicographic on code units.
StrLess[a \in Seq(Int), b \in Seq(Int)] ==
  IF b = <<>> THEN FALSE
  ELSE IF a = <<>> THEN TRUE
  ELSE IF Head(a) < Head(b) THEN TRUE
  ELSE IF Head(a) > Head(b) THEN FALSE
  ELSE StrLess[Tail(a), Tail(b)]

\* str.split(sep)[0]
SplitFirst[cs \in Seq(Int), sep \in Int] ==
  IF cs = <<>> \/ Head(cs) = sep THEN <<>>
  ELSE <<Head(cs)>> \o SplitFirst[Tail(cs), sep]

\* the rest of the string after the first separator (<<>> when there is none)
AfterFirst[cs \in Seq(Int), sep \in Int] ==
  IF cs = <<>> THEN <<>>
  ELSE IF Head(cs) = sep THEN Tail(cs)
  ELSE AfterFirst[Tail(cs), sep]

HasChar[cs \in Seq(Int), c \in Int] == \E i \in 1..Len(cs) : cs[i] = c

\* str.split(sep): the sequence of parts
Split[cs \in Seq(Int), sep \in Int] ==
  IF HasChar[cs, sep] THEN <<SplitFirst[cs, sep]>> \o Split[AfterFirst[cs, sep], sep]
  ELSE <<cs>>

LeadingDigits[cs \in Seq(Int)] ==
  IF cs = <<>> \/ ~IsDigit(Head(cs)) THEN <<>>
  ELSE <<Head(cs)>> \o LeadingDigits[Tail(cs)]

DigitsValue[ds \in Seq(Int)] ==
  IF ds = <<>> THEN 0
  ELSE DigitsValue[SubSeq(ds, 1, Len(ds) - 1)] * 10 + (ds[Len(ds)] - ChZero)

\* parseInt(str, 10): optional sign, then the leading decimal digits; NaN
\* when there is no digit.
parseInt[cs \in Seq(Int)] ==
  LET neg == cs # <<>> /\ Head(cs) = ChDash
      body == IF neg THEN Tail(cs) ELSE cs
      ds == LeadingDigits[body]
  IN IF ds = <<>> THEN NaN
     ELSE Num(IF neg THEN 0 - DigitsValue[ds] ELSE DigitsValue[ds])

\* Number(x): a number is itself, null is 0, a string is its value when the
\* whole string is a decimal integer (the empty string is 0) and NaN otherwise.
ToNumber(v) ==
  IF v.k = "num" THEN v
  ELSE IF v.k = "null" THEN Num(0)
  ELSE IF v.k = "nan" THEN NaN
  ELSE IF v.s = <<>> THEN Num(0)
  ELSE LET p == parseInt[v.s]
           neg == Head(v.s) = ChDash
           body == IF neg THEN Tail(v.s) ELSE v.s
       IN IF p.k = "num" /\ LeadingDigits[body] = body THEN p ELSE NaN

\* a < b in JavaScript: two strings compare by code units, anything else is
\* converted to numbers, and a comparison with NaN is false.
JsLess(a, b) ==
  IF a.k = "str" /\ b.k = "str" THEN StrLess[a.s, b.s]
  ELSE LET x == ToNumber(a)
           y == ToNumber(b)
       IN x.k = "num" /\ y.k = "num" /\ x.n < y.n

JsGreater(a, b) == JsLess(b, a)

JsLessEq(a, b) ==
  IF a.k = "str" /\ b.k = "str" THEN ~StrLess[b.s, a.s]
  ELSE LET x == ToNumber(a)
           y == ToNumber(b)
       IN x.k = "num" /\ y.k = "num" /\ x.n <= y.n

JsGreaterEq(a, b) == JsLessEq(b, a)

\* ------------------------------------------------------------------------
\* Date: proleptic Gregorian calendar, instants in hours
\* ------------------------------------------------------------------------
\* MakeDay(year, month, date) of ECMAScript with a 1-based month in 1..12:
\* the day number of the first of the month plus date - 1, so that a date
\* past the end of the month rolls over into the following month.
DaysFromCivil[y \in Int, m \in Int, d \in Int] ==
  LET yy == IF m <= 2 THEN y - 1 ELSE y
      era == yy \div 400
      yoe == yy - era * 400
      mp == (m + 9) % 12
      doy == (153 * mp + 2) \div 5 + d - 1
      doe == yoe * 365 + yoe \div 4 - yoe \div 100 + doy
  IN era * 146097 + doe - 719468

\* MakeDay with a 0-based month of any size (setMonth(getMonth() + n)).
MakeDay[y \in Int, m0 \in Int, d \in Int] == DaysFromCivil[y + (m0 \div 12), (m0 % 12) + 1, d]

CivilFromDays[z \in Int] ==
  LET fromDoy[yearBase \in Int, doy \in Int] ==
        LET mp == (5 * doy + 2) \div 153
        IN [y |-> yearBase + (IF mp < 10 THEN 0 ELSE 1),
            m |-> IF mp < 10 THEN mp + 3 ELSE mp - 9,
            d |-> doy - (153 * mp + 2) \div 5 + 1]
      fromYoe[era \in Int, doe \in Int, yoe \in Int] ==
        fromDoy[yoe + era * 400, doe - (365 * yoe + yoe \div 4 - yoe \div 100)]
      fromDoe[era \in Int, doe \in Int] ==
        fromYoe[era, doe, (doe - doe \div 1460 + doe \div 36524 - doe \div 146096) \div 365]
  IN fromDoe[(z + 719468) \div 146097, (z + 719468) % 146097]

HoursPerDay == 24

Instant[y \in Int, m \in Int, d \in Int, h \in Int] == DaysFromCivil[y, m, d] * HoursPerDay + h

InvalidDate == [ok |-> FALSE, t |-> 0]
ValidDate(t) == [ok |-> TRUE, t |-> t]

\* date.toISOString().split("T")[0]
DateStr[t \in Int] ==
  LET c == CivilFromDays[t \div HoursPerDay]
  IN Pad4[c.y] \o <<ChDash>> \o Pad2[c.m] \o <<ChDash>> \o Pad2[c.d]

\* date.toISOString(): YYYY-MM-DDTHH:mm:ss.sssZ (minutes and below are zero
\* at the model's resolution)
toISOString[t \in Int] ==
  DateStr[t] \o <<ChT>> \o Pad2[t % HoursPerDay] \o <<58, 48, 48, 58, 48, 48, 46, 48, 48, 48, 90>>

AllDigits[cs \in Seq(Int)] == \A i \in 1..Len(cs) : IsDigit(cs[i])

IsDateOnly[cs \in Seq(Int)] ==
  /\ Len(cs) = 10
  /\ cs[5] = ChDash /\ cs[8] = ChDash
  /\ AllDigits[SubSeq(cs, 1, 4)] /\ AllDigits[SubSeq(cs, 6, 7)] /\ AllDigits[SubSeq(cs, 9, 10)]

\* new Date(str): a date-only ISO string is midnight UTC of that day, a
\* full ISO string ending in Z is that instant; anything else the model
\* feeds it is unparsable (Invalid Date).
ParseDate[cs \in Seq(Int)] ==
  IF IsDateOnly[cs] \/ (Len(cs) = 24 /\ IsDateOnly[SubSeq(cs, 1, 10)] /\ cs[11] = ChT /\ cs[24] = 90
                         /\ AllDigits[SubSeq(cs, 12, 13)])
  THEN LET y == DigitsValue[SubSeq(cs, 1, 4)]
           m == DigitsValue[SubSeq(cs, 6, 7)]
           d == DigitsValue[SubSeq(cs, 9, 10)]
           h == IF Len(cs) = 24 THEN DigitsValue[SubSeq(cs, 12, 13)] ELSE 0
       IN IF m >= 1 /\ m <= 12 /\ d >= 1 /\ d <= 31 /\ h <= 23
          THEN ValidDate(Instant[y, m, d, h]) ELSE InvalidDate
  ELSE InvalidDate

\* ------------------------------------------------------------------------
\* Host time zone: local-time getters and setters of Date
\* ------------------------------------------------------------------------
\* A zone has a standard and a daylight offset (hours east of UTC) and the
\* instants between which daylight time is in force.
UTCZone == [std |-> 0, dst |-> 0, dstStart |-> 0, dstEnd |-> 0]
NewYorkZone == [std |-> -5, dst |-> -4, dstStart |-> Instant[2025, 3, 9, 7], dstEnd |-> Instant[2025, 11, 2, 6]]
BerlinZone == [std |-> 1, dst |-> 2, dstStart |-> Instant[2025, 3, 30, 1], dstEnd |-> Instant[2025, 10, 26, 1]]

Zones == {UTCZone, NewYorkZone, BerlinZone}

ZoneOffset[z \in Zones, t \in Int] == IF z.dstStart <= t /\ t < z.dstEnd THEN z.dst ELSE z.std

\* LocalTime(t)
LocalTime[z \in Zones, t \in Int] == t + ZoneOffset[z, t]

\* UTC(t) of ECMAScript: the instant of a local wall-clock time.  A wall time
\* that occurs twice or not at all is read with the offset in force before
\* the transition.
LocalToUTC[z \in Zones, w \in Int] ==
  LET a == w - z.dst
      b == w - z.std
      aOk == ZoneOffset[z, a] = z.dst
      bOk == ZoneOffset[z, b] = z.std
  IN IF aOk /\ bOk THEN a
     ELSE IF aOk THEN a
     ELSE b

\* next.setDate(next.getDate() + n)
setDate[z \in Zones, t \in Int, n \in Int] ==
  LET w == LocalTime[z, t]
      c == CivilFromDays[w \div HoursPerDay]
  IN LocalToUTC[z, DaysFromCivil[c.y, c.m, c.d + n] * HoursPerDay + (w % HoursPerDay)]

\* next.setMonth(next.getMonth() + n)
setMonth[z \in Zones, t \in Int, n \in Int] ==
  LET w == LocalTime[z, t]
      c == CivilFromDays[w \div HoursPerDay]
  IN LocalToUTC[z, MakeDay[c.y, (c.m - 1) + n, c.d] * HoursPerDay + (w % HoursPerDay)]

\* next.setFullYear(next.getFullYear() + n)
setFullYear[z \in Zones, t \in Int, n \in Int] ==
  LET w == LocalTime[z, t]
      c == CivilFromDays[w \div HoursPerDay]
  IN LocalToUTC[z, MakeDay[c.y + n, c.m - 1, c.d] * HoursPerDay + (w % HoursPerDay)]

\* newDate.setUTCDate(newDate.getUTCDate() + n)
setUTCDate[t \in Int, n \in Int] ==
  LET c == CivilFromDays[t \div HoursPerDay]
  IN DaysFromCivil[c.y, c.m, c.d + n] * HoursPerDay + (t % HoursPerDay)

\* newDate.setUTCMonth(newDate.getUTCMonth() + n)
setUTCMonth[t \in Int, n \in Int] ==
  LET c == CivilFromDays[t \div HoursPerDay]
  IN MakeDay[c.y, (c.m - 1) + n, c.d] * HoursPerDay + (t % HoursPerDay)

\* newDate.setUTCFullYear(newDate.getUTCFullYear() + n)
setUTCFullYear[t \in Int, n \in Int] ==
  LET c == CivilFromDays[t \div HoursPerDay]
  IN MakeDay[c.y + n, c.m - 1, c.d] * HoursPerDay + (t % HoursPerDay)

\* ------------------------------------------------------------------------
\* Partition context (the resolver)
\* ------------------------------------------------------------------------
isTimeBased(type) == type \in {"PerMinute", "PerHour"}

\* new Date("2099-12-31T23:59:59.000Z"), at the model's resolution
FarFuture == Instant[2099, 12, 31, 23]

FarFutureStr == Pad4[2099] \o <<ChDash>> \o Pad2[12] \o <<ChDash>> \o Pad2[31]

\* JavaScript truthiness of a string field that may be absent
Truthy(cs) == cs # <<>>

\* variant of counterContext: an end that is always a number
counterEndNeverNull(goals, now) ==
  LET g == goals[1]
      rawStart == IF Truthy(g.start_date) THEN parseInt[g.start_date] ELSE Num(0)
      startValue == IF rawStart.k = "nan" THEN Num(0) ELSE rawStart
  IN [type |-> g.partition_type, start |-> startValue, end |-> startValue, isCounter |-> TRUE]

counterContext(goals, now) ==
  LET g == goals[1]
      rawStart == IF Truthy(g.start_date) THEN parseInt[g.start_date] ELSE Num(0)
      rawEnd == IF Truthy(g.end_date) THEN parseInt[g.end_date] ELSE Null
      startValue == IF rawStart.k = "nan" THEN Num(0) ELSE rawStart
      endValue == IF rawEnd.k = "nan" THEN Null ELSE rawEnd
  IN [type |-> g.partition_type, start |-> startValue, end |-> endValue, isCounter |-> TRUE]

timeBasedContext(goals, now) ==
  LET g == goals[1]
      startValue == IF Truthy(g.start_date) THEN g.start_date ELSE toISOString[now]
      configuredEnd == IF Truthy(g.end_date) THEN ParseDate[g.end_date] ELSE ValidDate(FarFuture)
      endInstant == IF configuredEnd.ok /\ configuredEnd.t < now THEN configuredEnd.t ELSE now
  IN [type |-> g.partition_type, start |-> Str(startValue), end |-> Str(toISOString[endInstant]),
      isCounter |-> FALSE]

\* variant of dateContext: the configured end is taken as it is, not capped at today
dateContextUncapped(goals, now) ==
  LET g == goals[1]
      todayStr == DateStr[now]
      startValue == IF Truthy(g.start_date) THEN SplitFirst[g.start_date, ChT] ELSE todayStr
      configuredEnd == IF Truthy(g.end_date) THEN SplitFirst[g.end_date, ChT] ELSE FarFutureStr
  IN [type |-> g.partition_type, start |-> Str(startValue), end |-> Str(configuredEnd), isCounter |-> FALSE]

dateContext(goals, now) ==
  LET g == goals[1]
      todayStr == DateStr[now]
      startValue == IF Truthy(g.start_date) THEN SplitFirst[g.start_date, ChT] ELSE todayStr
      configuredEnd == IF Truthy(g.end_date) THEN SplitFirst[g.end_date, ChT] ELSE FarFutureStr
      endValue == IF StrLess[configuredEnd, todayStr] THEN configuredEnd ELSE todayStr
  IN [type |-> g.partition_type, start |-> Str(startValue), end |-> Str(endValue), isCounter |-> FALSE]

defaultContext(now) ==
  [type |-> "Daily", start |-> Str(DateStr[now]), end |-> Str(FarFutureStr), isCounter |-> FALSE]

partitionContext(goals, now) ==
  IF Len(goals) = 0 THEN defaultContext(now)
  ELSE IF goals[1].partition_type = "CustomCounter" THEN counterContext(goals, now)
  ELSE IF isTimeBased(goals[1].partition_type) THEN timeBasedContext(goals, now)
  ELSE dateContext(goals, now)

\* ------------------------------------------------------------------------
\* Boundary validation
\* ------------------------------------------------------------------------
isBoundaryValid(currentBoundary, ctx) ==
  IF currentBoundary.k = "null" THEN FALSE
  ELSE LET current == IF ctx.isCounter THEN ToNumber(currentBoundary) ELSE currentBoundary
           startValue == IF ctx.isCounter THEN ToNumber(ctx.start) ELSE ctx.start
           endValue == IF ctx.isCounter THEN ToNumber(ctx.end) ELSE ctx.end
       IN IF JsLess(current, startValue) THEN FALSE
          ELSE IF ctx.end.k # "null" /\ JsGreater(current, endValue) THEN FALSE
          ELSE TRUE

\* ------------------------------------------------------------------------
\* Boundary sequence
\* ------------------------------------------------------------------------
getFormattedBoundary(type, t) == IF isTimeBased(type) THEN toISOString[t] ELSE DateStr[t]

\* variant of sequencerNext: the switch has no default branch, a scheme it
\* does not know leaves the date where it is
sequencerNextNoDefault(type, zone, t) ==
  IF type = "Weekly" THEN setDate[zone, t, 7]
  ELSE IF type = "Monthly" THEN setMonth[zone, t, 1]
  ELSE IF type = "Yearly" THEN setFullYear[zone, t, 1]
  ELSE IF type = "BiWeekly" THEN setDate[zone, t, 14]
  ELSE IF type = "Daily" THEN setDate[zone, t, 1]
  ELSE t

\* one pass of the switch in calculateBoundaries (local-time setters)
sequencerNext(type, zone, t) ==
  IF type = "Weekly" THEN setDate[zone, t, 7]
  ELSE IF type = "Monthly" THEN setMonth[zone, t, 1]
  ELSE IF type = "Yearly" THEN setFullYear[zone, t, 1]
  ELSE IF type = "BiWeekly" THEN setDate[zone, t, 14]
  ELSE setDate[zone, t, 1]

RECURSIVE boundaryLoop(_, _, _, _, _, _)
boundaryLoop(type, zone, current, endDate, now, boundaries) ==
  IF current <= endDate /\ current <= now
  THEN LET pushed == Append(boundaries, getFormattedBoundary(type, current))
           next == sequencerNext(type, zone, current)
       IN IF next = current THEN pushed
          ELSE boundaryLoop(type, zone, next, endDate, now, pushed)
  ELSE boundaries

\* variant of calculateBoundaries: the loop runs up to now, whatever the end
calculateBoundariesIgnoringEnd(ctx, now, zone) ==
  IF ctx.isCounter \/ ctx.start.k # "str" THEN <<>>
  ELSE LET current == ParseDate[ctx.start.s]
       IN IF current.ok THEN boundaryLoop(ctx.type, zone, current.t, now, now, <<>>)
          ELSE <<>>

\* variant of calculateBoundaries: a Counter context yields start..end
calculateBoundariesCounterRange(ctx, now, zone) ==
  IF ctx.isCounter /\ ctx.start.k = "num" /\ ctx.end.k = "num"
  THEN [i \in 1..(IF ctx.end.n >= ctx.start.n THEN ctx.end.n - ctx.start.n + 1 ELSE 0) |->
          DecStr[ctx.start.n + i - 1]]
  ELSE <<>>

calculateBoundaries(ctx, now, zone) ==
  IF ctx.isCounter \/ ctx.start.k # "str" THEN <<>>
  ELSE LET current == ParseDate[ctx.start.s]
           endDate == ParseDate[ctx.end.s]
       IN IF current.ok /\ endDate.ok
          THEN boundaryLoop(ctx.type, zone, current.t, endDate.t, now, <<>>)
          ELSE <<>>

\* ------------------------------------------------------------------------
\* Boundary navigation
\* ------------------------------------------------------------------------
\* one pass of the switch in changeBoundary (UTC setters)
navigatorStep(type, t, delta) ==
  IF type = "Weekly" THEN setUTCDate[t, delta * 7]
  ELSE IF type = "Monthly" THEN setUTCMonth[t, delta]
  ELSE IF type = "Yearly" THEN setUTCFullYear[t, delta]
  ELSE IF type = "BiWeekly" THEN setUTCDate[t, delta * 14]
  ELSE setUTCDate[t, delta]

\* variant of changeCounterBoundary: a candidate past the end is clamped to the end
changeCounterBoundaryClamp(currentBoundary, ctx, delta) ==
  LET currentNum == ToNumber(currentBoundary)
      startNum == ToNumber(ctx.start)
      endNum == IF ctx.end.k # "null" THEN ToNumber(ctx.end) ELSE Null
      newBoundary == IF currentNum.k = "num" THEN Num(currentNum.n + delta) ELSE NaN
  IN IF ~JsGreaterEq(newBoundary, startNum) THEN currentBoundary
     ELSE IF endNum.k = "null" \/ JsLessEq(newBoundary, endNum) THEN newBoundary
     ELSE endNum

changeCounterBoundary(currentBoundary, ctx, delta) ==
  LET currentNum == ToNumber(currentBoundary)
      startNum == ToNumber(ctx.start)
      endNum == IF ctx.end.k # "null" THEN ToNumber(ctx.end) ELSE Null
      newBoundary == IF currentNum.k = "num" THEN Num(currentNum.n + delta) ELSE NaN
  IN IF JsGreaterEq(newBoundary, startNum) /\ (endNum.k = "null" \/ JsLessEq(newBoundary, endNum))
     THEN newBoundary
     ELSE currentBoundary

\* newBoundaryStr of a candidate date
candidateString(type, newDate) ==
  Str(IF isTimeBased(type) THEN toISOString[newDate] ELSE DateStr[newDate])

\* the candidate string of the calendar branch, or NaN when the code throws
\* (split on a non-string, toISOString of an Invalid Date)
calendarCandidate(currentBoundary, ctx, delta) ==
  IF currentBoundary.k # "str" THEN NaN
  ELSE LET parts == Split[currentBoundary.s, ChDash]
           year == parseInt[parts[1]]
           month == IF Len(parts) >= 2 THEN parseInt[parts[2]] ELSE NaN
           day == IF Len(parts) >= 3 THEN parseInt[parts[3]] ELSE NaN
       IN IF year.k = "num" /\ month.k = "num" /\ day.k = "num"
          THEN candidateString(ctx.type, navigatorStep(ctx.type, MakeDay[year.n, month.n - 1, day.n] * HoursPerDay,
                                                         delta))
          ELSE NaN

\* the comparisons of the candidate with start and end, and the setCurrentBoundary
\* they lead to (none when the candidate could not be computed)
setCandidate(currentBoundary, ctx, newBoundaryStr) ==
  IF newBoundaryStr.k # "str" THEN currentBoundary
  ELSE IF JsLess(newBoundaryStr, ctx.start)
       THEN (IF currentBoundary # ctx.start THEN ctx.start ELSE currentBoundary)
  ELSE IF JsLessEq(newBoundaryStr, ctx.end) THEN newBoundaryStr
  ELSE currentBoundary

\* variant of changeCalendarBoundary: a candidate after end is clamped to end
changeCalendarBoundaryClampAbove(currentBoundary, ctx, delta) ==
  LET newBoundaryStr == calendarCandidate(currentBoundary, ctx, delta)
  IN IF newBoundaryStr.k # "str" THEN currentBoundary
     ELSE IF JsLess(newBoundaryStr, ctx.start) THEN ctx.start
     ELSE IF JsLessEq(newBoundaryStr, ctx.end) THEN newBoundaryStr
     ELSE ctx.end

\* variant of changeCalendarBoundary: the candidate is not compared to end
changeCalendarBoundaryNoEndCheck(currentBoundary, ctx, delta) ==
  LET newBoundaryStr == calendarCandidate(currentBoundary, ctx, delta)
  IN IF newBoundaryStr.k # "str" THEN currentBoundary
     ELSE IF JsLess(newBoundaryStr, ctx.start) THEN ctx.start
     ELSE newBoundaryStr

changeCalendarBoundary(currentBoundary, ctx, delta) ==
  setCandidate(currentBoundary, ctx, calendarCandidate(currentBoundary, ctx, delta))

changeBoundary(currentBoundary, ctx, delta) ==
  IF currentBoundary.k = "null" THEN currentBoundary
  ELSE IF ctx.isCounter THEN changeCounterBoundary(currentBoundary, ctx, delta)
  ELSE changeCalendarBoundary(currentBoundary, ctx, delta)

\* the initialisation effect, were it to choose the oldest key
initialBoundaryFirstKey(ctx, now, zone) ==
  IF ctx.isCounter THEN ctx.start
  ELSE LET validBoundaries == calculateBoundaries(ctx, now, zone)
       IN IF Len(validBoundaries) > 0 THEN Str(validBoundaries[1])
          ELSE ctx.start

\* the boundary chosen by the initialisation effect
initialBoundary(ctx, now, zone) ==
  IF ctx.isCounter THEN ctx.start
  ELSE LET validBoundaries == calculateBoundaries(ctx, now, zone)
       IN IF Len(validBoundaries) > 0 THEN Str(validBoundaries[Len(validBoundaries)])
          ELSE ctx.start

\* the Next button of the navigator is disabled when this holds
isAtEndBoundary(currentBoundary, ctx) ==
  IF ctx.end.k = "null" THEN FALSE
  ELSE IF ctx.isCounter THEN JsGreaterEq(ToNumber(currentBoundary), ToNumber(ctx.end))
  ELSE JsGreaterEq(currentBoundary, ctx.end)

\* ------------------------------------------------------------------------
\* Goals, entries and payloads
\* ------------------------------------------------------------------------
Undefined == [k |-> "undef", n |-> 0, s |-> <<>>]

ChSpace == 32

isBooleanType(type) == type \in {"boolean", "achieved"}

TrimStart[cs \in Seq(Int)] == IF cs # <<>> /\ Head(cs) = ChSpace THEN TrimStart[Tail(cs)] ELSE cs

TrimEnd[cs \in Seq(Int)] ==
  IF cs # <<>> /\ cs[Len(cs)] = ChSpace THEN TrimEnd[SubSeq(cs, 1, Len(cs) - 1)] ELSE cs

\* str.trim()
Trim[cs \in Seq(Int)] == TrimEnd[TrimStart[cs]]

TrueStr == <<84, 114, 117, 101>>
FalseStr == <<70, 97, 108, 115, 101>>

\* currentBoundary.toString()
BoundaryToString(b) == IF b.k = "num" THEN DecStr[b.n] ELSE b.s

DateOf(y, m, d) == Pad4[y] \o <<ChDash>> \o Pad2[m] \o <<ChDash>> \o Pad2[d]

Goal(id, type, ptype, start, end) ==
  [id |-> id, type |-> type, partition_type |-> ptype, start_date |-> start, end_date |-> end]

Group(countId, boolId, ptype, start, end) ==
  <<Goal(countId, "count", ptype, start, end), Goal(boolId, "boolean", ptype, start, end)>>

\* what GET /squads/<id>/goals returns for each squad of the model
GoalsOf(squad) ==
  CASE squad = "daily" -> Group("c1", "b1", "Daily", DateOf(2025, 1, 14), <<>>)
    [] squad = "counter" -> Group("c2", "b2", "CustomCounter", DecStr[1], DecStr[2])
    [] squad = "late" -> Group("c3", "b3", "Daily", DateOf(2025, 1, 16), <<>>)
    [] squad = "weekly" -> Group("c4", "b4", "Weekly", DateOf(2025, 1, 1), <<>>)
    [] squad = "ten" -> Group("c5", "b5", "Daily", DateOf(2025, 1, 1), DateOf(2025, 1, 10))
    [] squad = "monthEnd" -> Group("c6", "b6", "Monthly", DateOf(2025, 1, 31), <<>>)
    [] squad = "spring" -> Group("c7", "b7", "Daily", DateOf(2025, 3, 7), <<>>)
    [] squad = "biweekly" -> Group("c8", "b8", "BiWeekly", DateOf(2025, 1, 1), DateOf(2025, 3, 20))
    [] squad = "minute" -> Group("c9", "b9", "Minute", DateOf(2025, 3, 12) \o <<ChT, 49, 48, 58, 51, 48>>, <<>>)
    [] squad = "hourly" -> Group("c10", "b10", "Hourly", DateOf(2025, 3, 28) \o <<ChT, 49, 48, 58, 48, 48>>,
                                 DateOf(2025, 4, 1) \o <<ChT, 49, 48, 58, 48, 48>>)
    [] squad = "monthly" -> Group("c11", "b11", "Monthly", DateOf(2024, 12, 15), <<>>)
    [] squad = "counterFive" -> Group("c12", "b12", "CustomCounter", DecStr[1], DecStr[5])
    [] squad = "counterOpen" -> Group("c13", "b13", "CustomCounter", DecStr[3], <<>>)
    [] squad = "counterBad" -> Group("c14", "b14", "CustomCounter", <<97, 98, 99>>, <<120>>)
    [] squad = "counterInverted" -> Group("c15", "b15", "CustomCounter", DecStr[5], DecStr[3])
    [] squad = "noStart" -> Group("c16", "b16", "Daily", <<>>, <<>>)
    [] squad = "future" -> Group("c17", "b17", "Weekly", DateOf(2025, 6, 1), <<>>)
    [] squad = "badStart" -> Group("c18", "b18", "Daily", <<97, 98, 99>>, <<>>)
    [] squad = "badEnd" -> Group("c19", "b19", "Weekly", DateOf(2024, 12, 1), DateOf(2024, 13, 45))
    [] squad = "inverted" -> Group("c20", "b20", "Daily", DateOf(2025, 1, 10), DateOf(2025, 1, 5))
    [] squad = "unknownScheme" -> Group("c21", "b21", "Quarterly", DateOf(2025, 3, 1), <<>>)

PageSquads == {"daily", "late"}

EngineSquads ==
  {"weekly", "ten", "monthEnd", "spring", "biweekly", "minute", "hourly", "monthly", "future",
   "counterFive", "counterOpen", "counterBad", "counterInverted", "noStart"}

PageNow == Instant[2025, 1, 15, 10]

\* malformed and degenerate groups: unparsable start (abc), unparsable end
\* (2024-13-45), start after end, a scheme the page does not know
DegenerateSquads == {"badStart", "badEnd", "inverted", "unknownScheme"}

EngineNows == {Instant[2025, 1, 15, 10], Instant[2025, 4, 2, 3]}

\* the wall-clock time, in hours, that passes between resolving the context
\* and a call of calculateBoundaries: an hour, a day, forty-five days
ElapsedHours == {1, HoursPerDay, 45 * HoursPerDay}

\* the entries a GET /squads/<id>/goals/entry may return: none, or a stored
\* value for the squad's first goal
ServerEntries(squad) ==
  {<<>>, <<[goal_id |-> GoalsOf(squad)[1].id, value |-> Str(<<55>>), note |-> Null]>>}

EditValues == {<<56>>}
EditNotes == {<<110>>}

\* values and notes typed with blanks around them, or blank altogether
PayloadValues == {<<>>, <<ChSpace>>, <<ChSpace, 56>>}
PayloadNotes == {<<>>, <<110, ChSpace>>}

EmptyEntries == <<>>

GoalIndex(goals, goalId) == CHOOSE i \in 1..Len(goals) : goals[i].id = goalId

\* the form state built from a getEntry response (fetchEntries, success)
prefilledState(goals, entriesData) ==
  [id \in {goals[i].id : i \in 1..Len(goals)} |->
    LET goal == goals[GoalIndex(goals, id)]
        found == {j \in 1..Len(entriesData) : entriesData[j].goal_id = id}
        hasEntry == found # {}
        entry == entriesData[CHOOSE j \in found : \A k \in found : j <= k]
        initialValue == IF isBooleanType(goal.type) /\ ~(hasEntry /\ entry.value = Str(TrueStr))
                        THEN FalseStr ELSE <<>>
    IN [value |-> IF hasEntry /\ entry.value.k = "str" THEN entry.value ELSE Str(initialValue),
        note |-> IF hasEntry /\ entry.note.k = "str" THEN entry.note ELSE Str(<<>>)]]

\* { ...prev, [goalId]: { ...prev[goalId], [field]: val } }
withField(prev, goalId, field, val) ==
  [id \in (DOMAIN prev) \cup {goalId} |->
    IF id = goalId
    THEN LET old == IF goalId \in DOMAIN prev THEN prev[goalId]
                    ELSE [value |-> Undefined, note |-> Undefined]
         IN IF field = "value" THEN [old EXCEPT !.value = val] ELSE [old EXCEPT !.note = val]
    ELSE prev[id]]

\* building the payload throws when a field of a present state is undefined
payloadThrows(goals, currentEntries) ==
  \E i \in 1..Len(goals) :
    /\ goals[i].id \in DOMAIN currentEntries
    /\ \/ currentEntries[goals[i].id].note.k # "str"
       \/ ~isBooleanType(goals[i].type) /\ currentEntries[goals[i].id].value.k # "str"

\* variant of valueToSend: the value is sent as typed, blank or not
valueToSendUntrimmed(goal, state) ==
  IF isBooleanType(goal.type) THEN state.value
  ELSE IF state.value.s # <<>> THEN state.value
  ELSE Null

valueToSend(goal, state) ==
  IF isBooleanType(goal.type) THEN state.value
  ELSE IF Trim[state.value.s] # <<>> THEN Str(Trim[state.value.s])
  ELSE Null

noteToSend(state) == IF Trim[state.note.s] = <<>> THEN Null ELSE Str(Trim[state.note.s])

payloadEntries(goals, currentEntries) ==
  LET sent == {id \in {goals[i].id : i \in 1..Len(goals)} \cap DOMAIN currentEntries :
                 LET goal == goals[GoalIndex(goals, id)]
                 IN valueToSend(goal, currentEntries[id]).k # "null"
                    \/ noteToSend(currentEntries[id]).k # "null"}
  IN [id \in sent |->
        [value |-> valueToSend(goals[GoalIndex(goals, id)], currentEntries[id]),
         note |-> noteToSend(currentEntries[id])]]

\* ------------------------------------------------------------------------
\* State of the entry page
\* ------------------------------------------------------------------------
VARIABLES
  squadId,          \* the squadId prop
  goals,            \* useState goals: the squad whose goal list is loaded (NoGoals: [])
  now,              \* the wall clock read by new Date()
  zone,             \* the host time zone
  currentBoundary,  \* useState currentBoundary
  entriesState,     \* useState entriesState
  loading,          \* useState loading
  isSaving,         \* useState isSaving
  saveTimer,        \* saveTimerRef: the pending debounced save and the render it closes over
  goalFetches,      \* goalsApi.getAll requests in flight
  fetches,          \* goalsApi.getEntry requests in flight
  submits,          \* goalsApi.submitEntry requests in flight
  squadChanges,     \* number of changes of the squadId prop so far
  lastNav,          \* the last call of changeBoundary: boundary before, delta, context
  lastSave,         \* the last call of handleSave: caller and outcome (sent, skipped,
                    \* rejected as out of range, or failed while building)
  shown             \* the getEntry request whose response filled entriesState

\* state of the history page (SquadGoalsHistoryPage.tsx) and of the server it reads
VARIABLES
  page,             \* useState page: 0 is the most recent page
  pageSize,         \* useMemo pageSize: 7 on a wide window, 3 on a narrow one
  totalPages,       \* useState totalPages
  historyData,      \* useState historyData (NoHistory: null)
  historyLoading,   \* useState loading of the history page
  historyError,     \* useState error of the history page (NoError: null)
  historyRequests,  \* goalsApi.getHistory requests in flight
  historyServer     \* what the server holds: the group's scheme, the length of its
                    \* boundary sequence and the value stored in its entries

\* state of the goals manager (useSquadGoalsManager.ts) and of the server it writes to
VARIABLES
  activeGroup,      \* useState activeGroup (NoGroup: null)
  hasGroupChanged,  \* useState hasGroupChanged
  isGroupLoading,   \* useState isGroupLoading
  groupTimer,       \* whether the timeout of the debounce effect is pending
  groupSaves,       \* POST /squads/<id>/groups requests in flight
  serverGroup       \* the goal group stored by the server

entryVars == <<squadId, goals, now, zone, currentBoundary, entriesState, loading, isSaving,
               saveTimer, goalFetches, fetches, submits, squadChanges, lastNav, lastSave,
               shown>>

historyVars == <<page, pageSize, totalPages, historyData, historyLoading, historyError,
                 historyRequests, historyServer>>

managerVars == <<activeGroup, hasGroupChanged, isGroupLoading, groupTimer, groupSaves, serverGroup>>

vars == <<entryVars, historyVars, managerVars>>

NoHistory == [null |-> TRUE]
NoError == "none"
NoGroup == [null |-> TRUE]

\* the history page is not mounted
HistoryUnmounted ==
  /\ page = 0
  /\ pageSize = 0
  /\ totalPages = 0
  /\ historyData = NoHistory
  /\ historyLoading = FALSE
  /\ historyError = NoError
  /\ historyRequests = <<>>
  /\ historyServer = NoHistory

\* the goals manager is not mounted
ManagerUnmounted ==
  /\ activeGroup = NoGroup
  /\ hasGroupChanged = FALSE
  /\ isGroupLoading = FALSE
  /\ groupTimer = FALSE
  /\ groupSaves = <<>>
  /\ serverGroup = NoGroup

NoGoals == "none"

\* the goal list a goals reference stands for
GoalList(ref) == IF ref = NoGoals THEN <<>> ELSE GoalsOf(ref)

NoTimer == [pending |-> FALSE]
NoNav == [called |-> FALSE]
NoSave == [via |-> "none", outcome |-> "none"]
NoShown == [applied |-> FALSE]

RemoveAt(seq, i) == SubSeq(seq, 1, i - 1) \o SubSeq(seq, i + 1, Len(seq))

PageInit(squads, nows, zones) ==
  /\ squadId \in squads
  /\ goals = NoGoals
  /\ now \in nows
  /\ zone \in zones
  /\ currentBoundary = Null
  /\ entriesState = EmptyEntries
  /\ loading = TRUE
  /\ isSaving = FALSE
  /\ saveTimer = NoTimer
  /\ goalFetches = <<squadId>>
  /\ fetches = <<>>
  /\ submits = <<>>
  /\ squadChanges = 0
  /\ lastNav = NoNav
  /\ lastSave = NoSave
  /\ shown = NoShown
  /\ HistoryUnmounted
  /\ ManagerUnmounted

Init == PageInit({"daily"}, {PageNow}, {UTCZone})

InitSquads == PageInit(PageSquads, {PageNow}, {UTCZone})

InitNav == PageInit(EngineSquads, EngineNows, Zones)

InitDegenerate == PageInit(DegenerateSquads, EngineNows, Zones)

\* The fetchEntries effect, run after a render in which currentBoundary,
\* goals or squadId changed: nothing without goals or boundary, otherwise the
\* form is cleared and a getEntry request is issued.
FetchEffect(changed, newSquad, newGoals, newBoundary) ==
  IF changed /\ Len(GoalList(newGoals)) # 0 /\ newBoundary.k # "null"
  THEN /\ loading' = TRUE
       /\ entriesState' = EmptyEntries
       /\ shown' = NoShown
       /\ fetches' = Append(fetches, [squadId |-> newSquad, boundary |-> newBoundary, goals |-> newGoals])
  ELSE UNCHANGED <<loading, entriesState, shown, fetches>>

\* the parent passes another squadId: fetchGoals and fetchEntries effects run
SquadChange(q) ==
  /\ q # squadId
  /\ squadChanges < MaxSquadChanges
  /\ Len(fetches) < MaxInFlight
  /\ squadId' = q
  /\ squadChanges' = squadChanges + 1
  /\ goalFetches' = Append(goalFetches, q)
  /\ FetchEffect(TRUE, q, goals, currentBoundary)
  /\ UNCHANGED <<goals, now, zone, currentBoundary, isSaving, saveTimer,
                 submits, lastNav, lastSave>>
  /\ UNCHANGED <<historyVars, managerVars>>

\* goalsApi.getAll resolves: setGoals(data), then the initial-boundary
\* effect and the fetchEntries effect
GoalsArrive(i) ==
  /\ i \in 1..Len(goalFetches)
  /\ Len(fetches) < MaxInFlight
  /\ \E data \in {goalFetches[i]} :
       \E boundary \in {IF currentBoundary.k = "null" /\ Len(GoalList(data)) > 0
                         THEN initialBoundary(partitionContext(GoalList(data), now), now, zone)
                         ELSE currentBoundary} :
         /\ goals' = data
         /\ currentBoundary' = boundary
         /\ FetchEffect(TRUE, squadId, data, boundary)
  /\ goalFetches' = RemoveAt(goalFetches, i)
  /\ UNCHANGED <<squadId, now, zone, isSaving, saveTimer, submits,
                 squadChanges, lastNav, lastSave>>
  /\ UNCHANGED <<historyVars, managerVars>>

\* goalsApi.getAll rejects
GoalsFail(i) ==
  /\ i \in 1..Len(goalFetches)
  /\ goalFetches' = RemoveAt(goalFetches, i)
  /\ UNCHANGED <<squadId, goals, now, zone, currentBoundary, entriesState, loading, isSaving,
                 saveTimer, fetches, submits, squadChanges, lastNav, lastSave, shown>>
  /\ UNCHANGED <<historyVars, managerVars>>

\* goalsApi.getEntry resolves
FetchDone(i) ==
  /\ i \in 1..Len(fetches)
  /\ \E data \in ServerEntries(fetches[i].squadId) :
       entriesState' = prefilledState(GoalList(fetches[i].goals), data)
  /\ shown' = [applied |-> TRUE, squadId |-> fetches[i].squadId, boundary |-> fetches[i].boundary]
  /\ loading' = FALSE
  /\ fetches' = RemoveAt(fetches, i)
  /\ UNCHANGED <<squadId, goals, now, zone, currentBoundary, isSaving, saveTimer,
                 goalFetches, submits, squadChanges, lastNav, lastSave>>
  /\ UNCHANGED <<historyVars, managerVars>>

\* goalsApi.getEntry rejects
FetchFail(i) ==
  /\ i \in 1..Len(fetches)
  /\ entriesState' = EmptyEntries
  /\ shown' = NoShown
  /\ loading' = FALSE
  /\ fetches' = RemoveAt(fetches, i)
  /\ UNCHANGED <<squadId, goals, now, zone, currentBoundary, isSaving, saveTimer,
                 goalFetches, submits, squadChanges, lastNav, lastSave>>
  /\ UNCHANGED <<historyVars, managerVars>>

\* the page renders the navigator and the goal rows
Rendered == ~loading /\ currentBoundary.k # "null"

\* changeBoundary(delta), then the fetchEntries effect when the boundary changed
Navigate(delta) ==
  /\ Rendered
  /\ Len(fetches) < MaxInFlight
  /\ \E boundary \in {changeBoundary(currentBoundary, partitionContext(GoalList(goals), now), delta)} :
       /\ boundary.k = "num" => boundary.n <= MaxCounter
       /\ currentBoundary' = boundary
       /\ lastNav' = [called |-> TRUE, from |-> currentBoundary, delta |-> delta, goals |-> goals,
                      to |-> boundary]
       /\ FetchEffect(boundary # currentBoundary, squadId, goals, boundary)
  /\ UNCHANGED <<squadId, goals, now, zone, isSaving, saveTimer,
                 goalFetches, submits, squadChanges, lastSave>>
  /\ UNCHANGED <<historyVars, managerVars>>

ClickPrev == Navigate(-1)

ClickNext ==
  /\ ~isAtEndBoundary(currentBoundary, partitionContext(GoalList(goals), now))
  /\ Navigate(1)

CallChangeBoundary == \E delta \in (0 - MaxDelta)..MaxDelta : Navigate(delta)

\* ------------------------------------------------------------------------
\* Saving
\* ------------------------------------------------------------------------
\* The render a handler closes over: the state values handleSave reads are
\* those of the render that created the handler, not those at call time.
ThisRender == [squadId |-> squadId, currentBoundary |-> currentBoundary, goals |-> goals,
               isSaving |-> isSaving]

\* isBoundaryValid of a render
RenderValid(render) ==
  isBoundaryValid(render.currentBoundary, partitionContext(GoalList(render.goals), now))

\* handleSave(currentEntries) of the given render.  The message it sets is
\* kept as the outcome: "rejected" is the out-of-range message, "threw" the
\* generic save error of the catch block.
handleSave(render, currentEntries, via) ==
  IF render.isSaving \/ render.currentBoundary.k = "null"
  THEN /\ lastSave' = [via |-> via, outcome |-> "skipped"]
       /\ UNCHANGED <<isSaving, submits>>
  ELSE IF ~RenderValid(render)
  THEN /\ lastSave' = [via |-> via, outcome |-> "rejected"]
       /\ UNCHANGED <<isSaving, submits>>
  ELSE IF payloadThrows(GoalList(render.goals), currentEntries)
  THEN /\ isSaving' = FALSE
       /\ lastSave' = [via |-> via, outcome |-> "threw"]
       /\ UNCHANGED submits
  ELSE /\ isSaving' = TRUE
       /\ submits' = Append(submits, [squadId |-> render.squadId, date |-> render.currentBoundary,
                                      entries |-> payloadEntries(GoalList(render.goals), currentEntries)])
       /\ lastSave' = [via |-> via, outcome |-> "sent"]

\* the goal rows are enabled
InputsEnabled == Rendered /\ RenderValid(ThisRender)

GoalIds == {GoalList(goals)[i].id : i \in 1..Len(GoalList(goals))}

\* the goals whose notes the user edits
NotedGoalIds == {GoalList(goals)[i].id : i \in {1} \cap (1..Len(GoalList(goals)))}

\* the debounced save scheduled by an edit: it replaces the pending one
debouncedSave(newState) ==
  [pending |-> TRUE, render |-> ThisRender, newState |-> newState]

handleValueChange(goalId, val) ==
  /\ InputsEnabled
  /\ goalId \in GoalIds
  /\ ~isBooleanType(GoalList(goals)[GoalIndex(GoalList(goals), goalId)].type)
  /\ RenderValid(ThisRender)
  /\ LET newState == withField(entriesState, goalId, "value", Str(val))
     IN /\ entriesState' = newState
        /\ saveTimer' = debouncedSave(newState)
  /\ UNCHANGED <<squadId, goals, now, zone, currentBoundary, loading, isSaving, goalFetches,
                 fetches, submits, squadChanges, lastNav, lastSave, shown>>
  /\ UNCHANGED <<historyVars, managerVars>>

handleNoteChange(goalId, val) ==
  /\ InputsEnabled
  /\ goalId \in GoalIds
  /\ RenderValid(ThisRender)
  /\ LET newState == withField(entriesState, goalId, "note", Str(val))
     IN /\ entriesState' = newState
        /\ saveTimer' = debouncedSave(newState)
  /\ UNCHANGED <<squadId, goals, now, zone, currentBoundary, loading, isSaving, goalFetches,
                 fetches, submits, squadChanges, lastNav, lastSave, shown>>
  /\ UNCHANGED <<historyVars, managerVars>>

handleCheckboxChange(goalId) ==
  /\ InputsEnabled
  /\ goalId \in GoalIds
  /\ isBooleanType(GoalList(goals)[GoalIndex(GoalList(goals), goalId)].type)
  /\ Len(submits) < MaxInFlight
  /\ LET checked == goalId \in DOMAIN entriesState /\ entriesState[goalId].value = Str(TrueStr)
         newState == withField(entriesState, goalId, "value",
                               Str(IF ~checked THEN TrueStr ELSE FalseStr))
     IN /\ entriesState' = newState
        /\ handleSave(ThisRender, newState, "checkbox")
  /\ UNCHANGED <<squadId, goals, now, zone, currentBoundary, loading, saveTimer, goalFetches,
                 fetches, squadChanges, lastNav, shown>>
  /\ UNCHANGED <<historyVars, managerVars>>

\* the debounce timer fires: handleSave(newState); saveTimerRef.current = null
TimerFire ==
  /\ saveTimer.pending
  /\ Len(submits) < MaxInFlight
  /\ handleSave(saveTimer.render, saveTimer.newState, "timer")
  /\ saveTimer' = NoTimer
  /\ UNCHANGED <<squadId, goals, now, zone, currentBoundary, entriesState, loading, goalFetches,
                 fetches, squadChanges, lastNav, shown>>
  /\ UNCHANGED <<historyVars, managerVars>>

\* goalsApi.submitEntry settles (resolved or rejected): finally { setIsSaving(false) }
SaveDone(i) ==
  /\ i \in 1..Len(submits)
  /\ submits' = RemoveAt(submits, i)
  /\ isSaving' = FALSE
  /\ UNCHANGED <<squadId, goals, now, zone, currentBoundary, entriesState, loading, saveTimer,
                 goalFetches, fetches, squadChanges, lastNav, lastSave, shown>>
  /\ UNCHANGED <<historyVars, managerVars>>

\* ------------------------------------------------------------------------
\* Specifications
\* ------------------------------------------------------------------------
\* one squad, one boundary: goals load, the user edits and toggles, saves settle
Next ==
  \/ \E i \in 1..MaxInFlight : GoalsArrive(i)
  \/ \E i \in 1..MaxInFlight : FetchDone(i)
  \/ \E goalId \in GoalIds, val \in EditValues : handleValueChange(goalId, val)
  \/ \E goalId \in NotedGoalIds, val \in EditNotes : handleNoteChange(goalId, val)
  \/ \E goalId \in GoalIds : handleCheckboxChange(goalId)
  \/ TimerFire
  \/ \E i \in 1..MaxInFlight : SaveDone(i)

Spec == Init /\ [][Next]_vars

\* one squad, one boundary: the user types values and notes with blanks
NextPayload ==
  \/ \E i \in 1..MaxInFlight : GoalsArrive(i)
  \/ \E i \in 1..MaxInFlight : FetchDone(i)
  \/ \E goalId \in GoalIds, val \in PayloadValues : handleValueChange(goalId, val)
  \/ \E goalId \in NotedGoalIds, val \in PayloadNotes : handleNoteChange(goalId, val)
  \/ \E goalId \in GoalIds : handleCheckboxChange(goalId)
  \/ TimerFire
  \/ \E i \in 1..MaxInFlight : SaveDone(i)

SpecPayload == Init /\ [][NextPayload]_vars

\* the squadId prop changes while the page is mounted, requests may fail
NextSquads ==
  \/ \E q \in PageSquads : SquadChange(q)
  \/ \E i \in 1..MaxInFlight : GoalsArrive(i)
  \/ \E i \in 1..MaxInFlight : GoalsFail(i)
  \/ \E i \in 1..MaxInFlight : FetchDone(i)
  \/ \E i \in 1..MaxInFlight : FetchFail(i)
  \/ ClickPrev
  \/ ClickNext
  \/ \E goalId \in GoalIds, val \in EditValues : handleValueChange(goalId, val)
  \/ TimerFire
  \/ \E i \in 1..MaxInFlight : SaveDone(i)

SpecSquads == InitSquads /\ [][NextSquads]_vars

\* the boundary engine alone: goals load, the boundary is initialised and
\* changeBoundary is called with every delta
NextNav ==
  \/ \E i \in 1..MaxInFlight : GoalsArrive(i)
  \/ \E i \in 1..MaxInFlight : FetchDone(i)
  \/ CallChangeBoundary

SpecNav == InitNav /\ [][NextNav]_vars

SpecDegenerate == InitDegenerate /\ [][NextNav]_vars

\* ------------------------------------------------------------------------
\* Properties
\* ------------------------------------------------------------------------
\* the partition context the page derives from the loaded goals
Context == partitionContext(GoalList(goals), now)

\* the partition context of the last changeBoundary call
NavContext == partitionContext(GoalList(lastNav.goals), now)

\* chronological order of two date strings
DateOnOrBefore(a, b) == ParseDate[a].ok /\ ParseDate[b].ok /\ ParseDate[a].t <= ParseDate[b].t

\* C1: Navigator never escapes range.  Whenever changeBoundary(delta) was
\* called at a boundary that passes the validator, the boundary it leaves
\* as current passes the validator for the same context, for every scheme
\* and every delta.
C1_NavigatorStaysInRange ==
  lastNav.called /\ isBoundaryValid(lastNav.from, NavContext)
    => isBoundaryValid(lastNav.to, NavContext) /\ currentBoundary = lastNav.to

\* a move of more than one period from a valid boundary to another boundary
C1_Witness ==
  /\ lastNav.called
  /\ isBoundaryValid(lastNav.from, NavContext)
  /\ lastNav.to # lastNav.from
  /\ lastNav.delta = 2
  /\ ~NavContext.isCounter

\* C2: Range closure.  For every calendar context, every key returned by
\* calculateBoundaries passes the validator for that context and lies, as a
\* date, between start and end.  The sequence depends on the goals, the clock
\* and the host's zone only, so it is examined where the page computes it:
\* once the goals are loaded, before any navigation.
C2_RangeClosure ==
  goals # NoGoals /\ ~lastNav.called /\ ~Context.isCounter =>
    LET keys == calculateBoundaries(Context, now, zone)
    IN \A i \in 1..Len(keys) :
         /\ isBoundaryValid(Str(keys[i]), Context)
         /\ DateOnOrBefore(Context.start.s, keys[i])
         /\ DateOnOrBefore(keys[i], Context.end.s)

\* a sequence generated across a daylight-saving change of the host
C2_Witness ==
  /\ goals = "spring"
  /\ zone = NewYorkZone
  /\ Len(calculateBoundaries(Context, now, zone)) > 20
  /\ currentBoundary.k = "str"

\* C3: a write for an out-of-range boundary is rejected before it reaches
\* storage: every submitEntry request carries a boundary that passes the
\* validator for the goal group of the squad the request is addressed to.
C3_NoOutOfRangeWrite ==
  \A i \in 1..Len(submits) :
    isBoundaryValid(submits[i].date, partitionContext(GoalsOf(submits[i].squadId), now))

\* C4: at most one submitEntry request is outstanding at any time.
C4_AtMostOneWriteInFlight == Len(submits) <= 1

\* C5: debounce coalescing.  A burst of edits leaves one pending debounced
\* save, and when its timer fires exactly one write is sent: the call of
\* handleSave made by the timer always issues its submitEntry request.
C5_BurstYieldsOneWrite ==
  lastSave.via = "timer" => lastSave.outcome = "sent"

\* C6: stale reads are discarded.  The response applied to the form state is
\* the response for the boundary currently displayed.
C6_OnlyCurrentResponseApplied ==
  shown.applied => shown.boundary = currentBoundary

\* C7: calendar navigation clamps below and refuses above.  With the
\* candidate compared to start and end as dates: before start the current
\* boundary becomes start, after end it stays, otherwise it becomes the
\* candidate.  Weekly from 2025-01-15 with start 2025-01-01 steps to
\* 2025-01-08, 2025-01-01 and then stays at 2025-01-01.
C7_ClampBelowRefuseAbove ==
  lastNav.called /\ ~NavContext.isCounter /\ lastNav.from.k = "str" =>
    LET candidate == calendarCandidate(lastNav.from, NavContext, lastNav.delta)
        start == NavContext.start
        end == NavContext.end
        weekly == lastNav.goals = "weekly" /\ lastNav.delta = -1
    IN /\ candidate.k = "str"
       /\ lastNav.to =
            IF ~DateOnOrBefore(start.s, candidate.s) THEN start
            ELSE IF ~DateOnOrBefore(candidate.s, end.s) THEN lastNav.from
            ELSE candidate
       /\ weekly /\ lastNav.from.s = DateOf(2025, 1, 15) => lastNav.to.s = DateOf(2025, 1, 8)
       /\ weekly /\ lastNav.from.s = DateOf(2025, 1, 8) => lastNav.to.s = DateOf(2025, 1, 1)
       /\ weekly /\ lastNav.from.s = DateOf(2025, 1, 1) => lastNav.to.s = DateOf(2025, 1, 1)

\* the third step back of the Weekly scenario: at start, the move changes nothing
C7_Witness ==
  /\ lastNav.called
  /\ lastNav.goals = "weekly"
  /\ lastNav.delta = -1
  /\ lastNav.from = Str(DateOf(2025, 1, 1))
  /\ currentBoundary = Str(DateOf(2025, 1, 1))

\* C8: Counter navigation.  candidate = current + delta becomes the current
\* boundary iff start <= candidate <= end (an absent end bounds nothing);
\* otherwise the current boundary is left as it was, never clamped.
C8_CounterAcceptOrKeep ==
  lastNav.called /\ NavContext.isCounter /\ lastNav.from.k = "num" =>
    LET candidate == lastNav.from.n + lastNav.delta
        inRange == /\ NavContext.start.n <= candidate
                   /\ NavContext.end.k = "num" => candidate <= NavContext.end.n
    IN /\ lastNav.to.k = "num"
       /\ lastNav.to.n = IF inRange THEN candidate ELSE lastNav.from.n
       /\ currentBoundary = lastNav.to

\* a move past the end of a bounded counter is refused one short of the end
C8_Witness ==
  /\ lastNav.called
  /\ lastNav.goals = "counterFive"
  /\ lastNav.from = Num(4)
  /\ lastNav.delta = 2
  /\ currentBoundary = Num(4)

MonthIndex(key) == 12 * DigitsValue[SubSeq(key, 1, 4)] + DigitsValue[SubSeq(key, 6, 7)]

\* C11: Monthly rollover.  For a Monthly context the keys of the sequence
\* fall in consecutive calendar months, none skipped (February included when
\* the start is a 31st), and a step of +1 that moves the boundary moves it
\* into the following calendar month.
C11_MonthlyCoversEveryMonth ==
  /\ goals # NoGoals /\ ~lastNav.called /\ Context.type = "Monthly" =>
       LET keys == calculateBoundaries(Context, now, zone)
       IN \A i \in 1..(Len(keys) - 1) : MonthIndex(keys[i + 1]) = MonthIndex(keys[i]) + 1
  /\ lastNav.called /\ NavContext.type = "Monthly" /\ lastNav.delta = 1 /\ lastNav.to # lastNav.from =>
       MonthIndex(lastNav.to.s) = MonthIndex(lastNav.from.s) + 1

\* changeBoundary(+1) leads from every key to the next and changeBoundary(-1) back
StepsAgree(ctx, keys) ==
  \A i \in 1..(Len(keys) - 1) :
    /\ changeBoundary(Str(keys[i]), ctx, 1) = Str(keys[i + 1])
    /\ changeBoundary(Str(keys[i + 1]), ctx, -1) = Str(keys[i])

\* C12: Sequencer and Navigator agree.  For every calendar context, every
\* host time zone and every two consecutive keys k, k' of the sequence
\* returned by calculateBoundaries, changeBoundary(+1) at k sets k' and
\* changeBoundary(-1) at k' sets k.
C12_SequencerNavigatorAgree ==
  goals # NoGoals /\ ~lastNav.called /\ ~Context.isCounter =>
    StepsAgree(Context, calculateBoundaries(Context, now, zone))

\* C13: the sequence is start, start + inc, start + 2 inc, ... up to end.
\* For every calendar context whose start is not after its end the first
\* key is start, each key follows the one before it by the increment of the
\* scheme (one minute for Minute, which at the resolution of whole hours is
\* at most one hour; one hour for Hourly; 1, 7 and 14 days for Daily, Weekly
\* and BiWeekly; one calendar month for Monthly), and the term after the last
\* key is after end.  Daily over 2025-01-01..2025-01-10 gives ten keys.
C13_SequenceIsArithmetic ==
  goals # NoGoals /\ ~lastNav.called /\ ~Context.isCounter =>
    LET keys == calculateBoundaries(Context, now, zone)
        at[i \in 1..Len(keys)] == ParseDate[keys[i]].t
        follows[t \in Int, u \in Int] ==
          CASE Context.type = "Minute" -> u >= t /\ u - t <= 1
            [] Context.type = "Hourly" -> u = t + 1
            [] Context.type = "Daily" -> u = t + HoursPerDay
            [] Context.type = "Weekly" -> u = t + 7 * HoursPerDay
            [] Context.type = "BiWeekly" -> u = t + 14 * HoursPerDay
            [] OTHER -> u = setUTCMonth[t, 1]
    IN /\ (Len(keys) > 0) = DateOnOrBefore(Context.start.s, Context.end.s)
       /\ Len(keys) > 0 => keys[1] = Context.start.s
       /\ \A i \in 1..(Len(keys) - 1) : follows[at[i], at[i + 1]]
       /\ Len(keys) > 0 =>
            \A u \in (at[Len(keys)] + 1)..ParseDate[Context.end.s].t : ~follows[at[Len(keys)], u]
       /\ goals = "ten" =>
            Len(keys) = 10 /\ keys[1] = DateOf(2025, 1, 1) /\ keys[10] = DateOf(2025, 1, 10)

\* C14: the format of a boundary key is fixed by the scheme.  Every key the
\* page produces (the resolved start and end, the keys of the sequence, the
\* boundary set at initialisation and by changeBoundary, the boundary of every
\* getEntry and submitEntry request) is a full timestamp
\* YYYY-MM-DDTHH:mm:ss.sssZ for Minute and Hourly, a date YYYY-MM-DD for
\* Daily, Weekly, BiWeekly and Monthly, and an integer for CustomCounter.
C14_KeyFormatPerScheme ==
  LET timestamp(cs) ==
        Len(cs) = 24 /\ IsDateOnly[SubSeq(cs, 1, 10)] /\ cs[11] = ChT /\ cs[24] = 90
      wellFormed(type, key) ==
        CASE type \in {"Minute", "Hourly"} -> key.k = "str" /\ timestamp(key.s)
          [] type = "CustomCounter" -> key.k = "num"
          [] OTHER -> key.k = "str" /\ IsDateOnly[key.s]
      typeOf(ref) == GoalList(ref)[1].partition_type
  IN /\ goals # NoGoals =>
          /\ wellFormed(typeOf(goals), Context.start)
          /\ Context.end.k # "null" => wellFormed(typeOf(goals), Context.end)
          /\ wellFormed(typeOf(goals), currentBoundary)
          /\ ~lastNav.called =>
               \A key \in {Str(calculateBoundaries(Context, now, zone)[i]) :
                             i \in 1..Len(calculateBoundaries(Context, now, zone))} :
                 wellFormed(typeOf(goals), key)
     /\ \A i \in 1..Len(fetches) : wellFormed(typeOf(fetches[i].goals), fetches[i].boundary)
     /\ \A i \in 1..Len(submits) : wellFormed(typeOf(submits[i].squadId), submits[i].date)

\* C15: determinism.  For the context resolved from a goal group, a call of
\* calculateBoundaries made any time later (an hour, a day, weeks) returns
\* the sequence the call made at once returns: the clock it reads inside
\* does not show in its result.
C15_SequencerDeterministic ==
  goals # NoGoals /\ ~lastNav.called =>
    \A elapsed \in ElapsedHours :
      calculateBoundaries(Context, now + elapsed, zone) = calculateBoundaries(Context, now, zone)

\* an open-ended Weekly group: the second call, 45 days later, returns the
\* same keys, the last of them the boundary the page opened on
C15_Witness ==
  /\ goals = "weekly"
  /\ ~lastNav.called
  /\ Len(calculateBoundaries(Context, now + 45 * HoursPerDay, zone)) >= 3
  /\ Str(calculateBoundaries(Context, now + 45 * HoursPerDay, zone)[Len(calculateBoundaries(Context, now, zone))])
       = currentBoundary

\* ------------------------------------------------------------------------
\* History page: the server's paginator and evaluator, the client's table
\* ------------------------------------------------------------------------
MAX_PAGE_SIZE_WIDE == 7
MAX_PAGE_SIZE_NARROW == 3

\* the longest boundary sequence a group of the model has
MaxHistoryLen == 11

HistoryGoal(id, type) == [goal_id |-> id, goal_type |-> type, target |-> 10, target_max |-> 20]

\* one goal of every type
HistoryGoals ==
  <<HistoryGoal("h1", "count"), HistoryGoal("h2", "above"), HistoryGoal("h3", "below"),
    HistoryGoal("h4", "range"), HistoryGoal("h5", "boolean"), HistoryGoal("h6", "achieved"),
    HistoryGoal("h7", "time"), HistoryGoal("h8", "threshold"), HistoryGoal("h9", "ratio"),
    HistoryGoal("h10", "between")>>

\* stored entry values: null, "", "  ", "abc", "15", "25", " 15 ", "5", "True", "00:00:15"
HistoryValues ==
  {Null, Str(<<>>), Str(<<ChSpace, ChSpace>>), Str(<<97, 98, 99>>), Str(<<49, 53>>), Str(<<50, 53>>),
   Str(<<ChSpace, 49, 53, ChSpace>>), Str(<<53>>), Str(TrueStr),
   Str(<<48, 48, 58, 48, 48, 58, 49, 53>>)}

\* the boundary sequence of the group, oldest first: the integers 1..n of a
\* counter, or n days from 2025-01-01
HistorySequence(server) ==
  [i \in 1..server.n |->
     IF server.kind = "CustomCounter" THEN DecStr[i]
     ELSE DateStr[Instant[2025, 1, 1, 0] + (i - 1) * HoursPerDay]]

\* an entry is stored for every other boundary of a goal
HasEntry(g, i) == (g + i) % 2 = 0

\* variant of GoalStatusEvaluator: a value that does not parse is reported as an error
GoalStatusEvaluatorStrict(type, target, targetMax, value) ==
  IF value.k # "str" \/ Trim[value.s] = <<>> THEN "blank"
  ELSE IF type \in {"boolean", "achieved"}
       THEN (IF Trim[value.s] = TrueStr THEN "met" ELSE "error")
  ELSE IF ToNumber(Str(Trim[value.s])).k # "num" THEN "error"
  ELSE IF ToNumber(Str(Trim[value.s])).n >= target THEN "met"
  ELSE "unmet"

\* the status of a raw entry value for a goal
GoalStatusEvaluator(type, target, targetMax, value) ==
  IF value.k # "str" \/ Trim[value.s] = <<>> THEN "blank"
  ELSE IF type \in {"boolean", "achieved"}
       THEN (IF Trim[value.s] = TrueStr THEN "met" ELSE "unmet")
  ELSE LET parts == Split[Trim[value.s], 58]
           seconds == IF Len(parts) = 3 /\ \A i \in 1..3 : parts[i] # <<>> /\ AllDigits[parts[i]]
                      THEN Num(3600 * DigitsValue[parts[1]] + 60 * DigitsValue[parts[2]]
                               + DigitsValue[parts[3]])
                      ELSE ToNumber(Str(Trim[value.s]))
           parsed == IF type = "time" THEN seconds ELSE ToNumber(Str(Trim[value.s]))
       IN IF parsed.k # "num" THEN "unmet"
          ELSE IF type = "below" THEN (IF parsed.n <= target THEN "met" ELSE "unmet")
          ELSE IF type \in {"range", "between", "ratio"}
               THEN (IF target <= parsed.n /\ parsed.n <= targetMax THEN "met" ELSE "unmet")
          ELSE IF parsed.n >= target THEN "met" ELSE "unmet"

BlankCell == [status |-> "blank", value |-> Null, note |-> Null]

\* ceil(sequenceLength / pageSize)
TotalPages(n, size) == (n + size - 1) \div size

\* the slice [page * pageSize, (page + 1) * pageSize) of the newest-first sequence
PageSlice(reversed, p, size) ==
  SubSeq(reversed, p * size + 1, IF (p + 1) * size < Len(reversed) THEN (p + 1) * size ELSE Len(reversed))

Reverse(seq) == [i \in 1..Len(seq) |-> seq[Len(seq) + 1 - i]]

\* the rows of a page: for every goal one cell per boundary of the slice,
\* evaluated from the entry when there is one and blank otherwise
HistoryRows(server, slice, skipped) ==
  [g \in 1..Len(HistoryGoals) |->
     [goal_id |-> HistoryGoals[g].goal_id,
      goal_type |-> HistoryGoals[g].goal_type,
      boundaries |->
        [j \in 1..Len(slice) |->
           [key |-> slice[j],
            cell |-> IF HasEntry(g, server.n - (skipped + j) + 1)
                     THEN [status |-> GoalStatusEvaluator(HistoryGoals[g].goal_type, HistoryGoals[g].target,
                                                          HistoryGoals[g].target_max, server.value),
                           value |-> server.value, note |-> Null]
                     ELSE BlankCell]]]]

\* the response to GET /squads/<id>/goals/history?page=&page_size=
HistoryPaginator(server, p, size) ==
  [total_pages |-> TotalPages(server.n, size),
   groups |-> HistoryRows(server, PageSlice(Reverse(HistorySequence(server)), p, size), p * size)]

\* a property name that is a canonical array index: Object.keys lists these
\* first, in ascending numeric order
IsArrayIndex(cs) == cs # <<>> /\ AllDigits[cs] /\ (Len(cs) = 1 \/ Head(cs) # ChZero)

\* the comparator of canonicalBoundariesKeys: a sorts before b
KeyBefore(a, b, isCounter) ==
  IF isCounter THEN JsLess(ToNumber(Str(a)), ToNumber(Str(b))) ELSE StrLess[a, b]

\* keys.sort(comparator) of distinct keys
RECURSIVE SortKeys(_, _)
SortKeys(keys, isCounter) ==
  IF keys = {} THEN <<>>
  ELSE LET first == CHOOSE a \in keys : \A b \in keys \ {a} : KeyBefore(a, b, isCounter)
       IN <<first>> \o SortKeys(keys \ {first}, isCounter)

\* Object.keys(boundaries) of the parsed JSON object
ObjectKeys(boundaries) ==
  SortKeys({boundaries[j].key : j \in {i \in 1..Len(boundaries) : IsArrayIndex(boundaries[i].key)}}, TRUE)
    \o SelectSeq([j \in 1..Len(boundaries) |-> boundaries[j].key], LAMBDA k : ~IsArrayIndex(k))

canonicalKeysOf(keys) ==
  SortKeys({keys[j] : j \in 1..Len(keys)},
           Len(keys) > 0 /\ ~HasChar[keys[1], ChDash] /\ ToNumber(Str(keys[1])).k = "num")

canonicalBoundariesKeys(data) ==
  IF data = NoHistory \/ Len(data.groups) = 0 THEN <<>>
  ELSE canonicalKeysOf(ObjectKeys(data.groups[1].boundaries))

\* goalData.boundaries[key], and the blank cell rendered when it is missing
cellOf(boundaries, key) ==
  IF \E j \in 1..Len(boundaries) : boundaries[j].key = key
  THEN boundaries[CHOOSE j \in 1..Len(boundaries) : boundaries[j].key = key].cell
  ELSE BlankCell

\* variant of rows: blank cells are left out of a row
rowsSkippingBlank(data, keys) ==
  [g \in 1..Len(data.groups) |->
     [goal_id |-> data.groups[g].goal_id,
      cells |-> SelectSeq([j \in 1..Len(keys) |-> cellOf(data.groups[g].boundaries, keys[j])],
                          LAMBDA c : c.status # "blank")]]

\* the table body: one row per goal, one cell per canonical key
rows(data, keys) ==
  [g \in 1..Len(data.groups) |->
     [goal_id |-> data.groups[g].goal_id,
      cells |-> [j \in 1..Len(keys) |-> cellOf(data.groups[g].boundaries, keys[j])]]]

isNewerDisabled == page = 0
isOlderDisabled == totalPages = 0 \/ page >= totalPages - 1

\* the page shows the table and the navigation controls
HistoryRendered == ~historyLoading /\ historyError = NoError

\* fetchHistoryData, run by the effect when the page number changed
fetchHistoryData(p) ==
  /\ historyLoading' = TRUE
  /\ historyError' = NoError
  /\ historyData' = NoHistory
  /\ historyRequests' = Append(historyRequests, [page |-> p, pageSize |-> pageSize])

\* goalsApi.getHistory resolves
HistoryArrive(i) ==
  /\ i \in 1..Len(historyRequests)
  /\ \E data \in {HistoryPaginator(historyServer, historyRequests[i].page, historyRequests[i].pageSize)} :
       /\ historyData' = data
       /\ totalPages' = data.total_pages
       /\ historyError' = IF Len(data.groups) = 0 THEN "no goals" ELSE historyError
  /\ historyLoading' = FALSE
  /\ historyRequests' = RemoveAt(historyRequests, i)
  /\ UNCHANGED <<page, pageSize, historyServer, entryVars, managerVars>>

\* goalsApi.getHistory rejects
HistoryFail(i) ==
  /\ i \in 1..Len(historyRequests)
  /\ historyError' = "Failed to load history"
  /\ historyLoading' = FALSE
  /\ historyRequests' = RemoveAt(historyRequests, i)
  /\ UNCHANGED <<page, pageSize, totalPages, historyData, historyServer, entryVars, managerVars>>

\* variant of handleOlderHistory: the page number advances by two
handleOlderHistorySkipping ==
  /\ HistoryRendered
  /\ ~isOlderDisabled
  /\ page' = page + 2
  /\ fetchHistoryData(page + 2)
  /\ UNCHANGED <<pageSize, totalPages, historyServer, entryVars, managerVars>>

handleOlderHistory ==
  /\ HistoryRendered
  /\ ~isOlderDisabled
  /\ page' = page + 1
  /\ fetchHistoryData(page + 1)
  /\ UNCHANGED <<pageSize, totalPages, historyServer, entryVars, managerVars>>

handleNewerHistory ==
  /\ HistoryRendered
  /\ ~isNewerDisabled
  /\ page' = (IF page - 1 > 0 THEN page - 1 ELSE 0)
  /\ fetchHistoryData(IF page - 1 > 0 THEN page - 1 ELSE 0)
  /\ UNCHANGED <<pageSize, totalPages, historyServer, entryVars, managerVars>>

\* the entry page is not mounted
EntryUnmounted(zones) ==
  /\ squadId = "daily"
  /\ goals = NoGoals
  /\ now = PageNow
  /\ zone \in zones
  /\ currentBoundary = Null
  /\ entriesState = EmptyEntries
  /\ loading = FALSE
  /\ isSaving = FALSE
  /\ saveTimer = NoTimer
  /\ goalFetches = <<>>
  /\ fetches = <<>>
  /\ submits = <<>>
  /\ squadChanges = 0
  /\ lastNav = NoNav
  /\ lastSave = NoSave
  /\ shown = NoShown

HistoryServers ==
  {[kind |-> kind, n |-> n, value |-> value] :
     kind \in {"CustomCounter", "Daily"}, n \in 0..MaxHistoryLen, value \in HistoryValues}

\* the history page after its first render: the request for page 0 is in flight
InitHistory ==
  /\ EntryUnmounted({UTCZone})
  /\ ManagerUnmounted
  /\ page = 0
  /\ pageSize \in {MAX_PAGE_SIZE_WIDE, MAX_PAGE_SIZE_NARROW}
  /\ totalPages = 0
  /\ historyData = NoHistory
  /\ historyLoading = TRUE
  /\ historyError = NoError
  /\ historyRequests = <<[page |-> 0, pageSize |-> pageSize]>>
  /\ historyServer \in HistoryServers

NextHistory ==
  \/ \E i \in 1..MaxInFlight : HistoryArrive(i)
  \/ \E i \in 1..MaxInFlight : HistoryFail(i)
  \/ handleOlderHistory
  \/ handleNewerHistory

SpecHistory == InitHistory /\ [][NextHistory]_vars

\* the keys of page p as the server returns them, newest first
PageKeys(server, p, size) ==
  LET boundaries == HistoryPaginator(server, p, size).groups[1].boundaries
  IN [j \in 1..Len(boundaries) |-> boundaries[j].key]

C17_TableIsRectangular ==
  historyData # NoHistory =>
    LET keys == canonicalBoundariesKeys(historyData)
        table == rows(historyData, keys)
        sequence == HistorySequence(historyServer)
        indexOf[key \in {sequence[i] : i \in 1..Len(sequence)}] ==
          CHOOSE i \in 1..Len(sequence) : sequence[i] = key
    IN /\ Len(table) = Len(HistoryGoals)
       /\ Len(keys) = Len(PageKeys(historyServer, page, pageSize))
       /\ \A j \in 1..Len(keys) : \E i \in 1..Len(keys) : PageKeys(historyServer, page, pageSize)[i] = keys[j]
       /\ \A i, j \in 1..Len(keys) : i # j => keys[i] # keys[j]
       /\ \A g \in 1..Len(table) :
            /\ table[g].goal_id = HistoryGoals[g].goal_id
            /\ Len(table[g].cells) = Len(keys)
            /\ \A j \in 1..Len(keys) :
                 IF HasEntry(g, indexOf[keys[j]])
                 THEN table[g].cells[j].value = historyServer.value
                 ELSE table[g].cells[j] = BlankCell

\* the second page, a full one, of days with stored values "15": in the
\* first row a cell without entry is blank, the cell next to it is met
C17_Witness ==
  /\ historyData # NoHistory
  /\ historyServer.kind = "Daily"
  /\ historyServer.value = Str(<<49, 53>>)
  /\ Len(canonicalBoundariesKeys(historyData)) = pageSize
  /\ page = 1
  /\ \E j \in 1..(pageSize - 1) :
       /\ rows(historyData, canonicalBoundariesKeys(historyData))[1].cells[j] = BlankCell
       /\ rows(historyData, canonicalBoundariesKeys(historyData))[1].cells[j + 1].status = "met"

\* C18: evaluator totality.  For every goal type and every entry value the
\* status is one of met, unmet, blank; it is blank exactly when the value is
\* null or empty after trimming; every cell of a loaded page carries such a
\* status.  Type range with target 10 and targetMax 20: "15" is met, "25" is
\* unmet, "" is blank.
C18_EvaluatorTotal ==
  /\ \A g \in 1..Len(HistoryGoals), value \in HistoryValues :
       LET status == GoalStatusEvaluator(HistoryGoals[g].goal_type, HistoryGoals[g].target,
                                         HistoryGoals[g].target_max, value)
       IN /\ status \in {"met", "unmet", "blank"}
          /\ (status = "blank") = (value.k = "null" \/ Trim[value.s] = <<>>)
  /\ GoalStatusEvaluator("range", 10, 20, Str(<<49, 53>>)) = "met"
  /\ GoalStatusEvaluator("range", 10, 20, Str(<<50, 53>>)) = "unmet"
  /\ GoalStatusEvaluator("range", 10, 20, Str(<<>>)) = "blank"
  /\ historyData # NoHistory =>
       \A g \in 1..Len(historyData.groups) : \A j \in 1..Len(historyData.groups[g].boundaries) :
         LET cell == historyData.groups[g].boundaries[j].cell
         IN /\ cell.status \in {"met", "unmet", "blank"}
            /\ cell.status = "blank" => cell.value.k = "null" \/ Trim[cell.value.s] = <<>>

\* a page whose stored values are the garbage "abc": the count goal's cells
\* with an entry are unmet
C18_Witness ==
  /\ historyData # NoHistory
  /\ historyServer.value = Str(<<97, 98, 99>>)
  /\ historyServer.n >= 2
  /\ \E j \in 1..Len(historyData.groups[1].boundaries) :
       historyData.groups[1].boundaries[j].cell.status = "unmet"

\* ------------------------------------------------------------------------
\* Goals manager: the configuration of the squad's goal group
\* (useSquadGoalsManager.ts; the user is an admin of the squad)
\* ------------------------------------------------------------------------
MaxGroupSaves == 1

\* the schemes, dates and counter values an admin enters in the model
ManagerTypes == {"Daily", "Monthly", "CustomCounter"}
DateInputs == {<<>>, DateOf(2025, 3, 10)}
CounterInputs == {<<>>, DecStr[7]}

\* a JavaScript value that is truthy
JsTruthy(v) == (v.k = "str" /\ v.s # <<>>) \/ (v.k = "num" /\ v.n # 0)

\* a || b
OrElse(a, b) == IF JsTruthy(a) THEN a ELSE b

\* a ?? b
Coalesce(a, b) == IF a.k \in {"null", "undef"} THEN b ELSE a

\* String(v) of a string or a non-negative integer
ToStr(v) == IF v.k = "num" THEN DecStr[v.n] ELSE v.s

\* the value of a date input for what the server sent: a numeric string is
\* kept, anything else is read as a Date (a number as milliseconds since the
\* epoch) and written as its local calendar day
formatToDateInput(z, v) ==
  IF v.k = "str" /\ ToNumber(v).k = "num" THEN v.s
  ELSE IF ~JsTruthy(v) THEN <<>>
  ELSE IF v.k = "num" THEN DateStr[LocalTime[z, v.n \div 3600000]]
  ELSE IF ~ParseDate[v.s].ok THEN <<>>
  ELSE DateStr[LocalTime[z, ParseDate[v.s].t]]

\* convertToLocalISO(dateString, false): midnight UTC of the day entered
\* (the manager offers no Minute or Hourly scheme)
convertToLocalISO(dateString, clock) ==
  IF dateString = <<>> THEN <<>>
  ELSE LET parts == Split[SplitFirst[dateString, ChT], ChDash]
       IN IF Len(parts) < 3 THEN toISOString[clock]
          ELSE toISOString[MakeDay[parseInt[parts[1]].n, parseInt[parts[2]].n - 1,
                                   parseInt[parts[3]].n] * HoursPerDay]

\* the group as the manager holds it: start and end are the texts of the inputs
ManagedGroup(id, type, start, end) ==
  [id |-> id, partition_type |-> type, start_date |-> start, end_date |-> end]

\* the body saveGroup posts for a group
groupPayload(groupData, clock) ==
  IF groupData.partition_type = "CustomCounter"
  THEN LET startValue == IF Truthy(groupData.start_date) THEN parseInt[groupData.start_date] ELSE Num(0)
           endValueStr == Trim[groupData.end_date]
           endValue == IF Truthy(endValueStr) THEN parseInt[endValueStr] ELSE Undefined
       IN [id |-> groupData.id, partition_type |-> groupData.partition_type,
           start_value |-> IF startValue.k = "nan" THEN Num(0) ELSE startValue,
           end_value |-> IF endValue.k \in {"undef", "nan"} THEN Undefined ELSE endValue,
           start_date |-> Undefined, end_date |-> Undefined]
  ELSE [id |-> groupData.id, partition_type |-> groupData.partition_type,
        start_date |-> Str(convertToLocalISO(groupData.start_date, clock)),
        end_date |-> Str(convertToLocalISO(groupData.end_date, clock)),
        start_value |-> Undefined, end_value |-> Undefined]

\* the group saveGroup puts into the state from the response
savedToActive(savedGroup, groupData, z) ==
  IF groupData.partition_type = "CustomCounter"
  THEN ManagedGroup(savedGroup.id, savedGroup.partition_type,
                    ToStr(Coalesce(savedGroup.start_value, Str(groupData.start_date))),
                    IF savedGroup.end_value.k \in {"null", "undef"} THEN <<>> ELSE ToStr(savedGroup.end_value))
  ELSE ManagedGroup(savedGroup.id, savedGroup.partition_type,
                    formatToDateInput(z, OrElse(savedGroup.start_date,
                                                OrElse(savedGroup.start_value, Str(groupData.start_date)))),
                    formatToDateInput(z, OrElse(savedGroup.end_date,
                                                OrElse(savedGroup.end_value, Str(groupData.end_date)))))

\* the group loadGroupAndGoals puts into the state from GET /squads/<id>/groups
loadedGroup(apiGroup, z) ==
  LET isCounter == apiGroup.partition_type = "CustomCounter"
      startValue == IF isCounter THEN apiGroup.start_value ELSE apiGroup.start_date
      endValue == IF isCounter THEN apiGroup.end_value
                  ELSE Coalesce(apiGroup.end_date, Coalesce(apiGroup.end_value, Undefined))
  IN ManagedGroup(apiGroup.id, apiGroup.partition_type,
                  formatToDateInput(z, startValue),
                  IF isCounter THEN (IF endValue.k \in {"null", "undef"} THEN <<>> ELSE ToStr(endValue))
                  ELSE formatToDateInput(z, endValue))

\* the group handleGroupConfigChange puts into the state
updatedGroup(group, field, value, z, clock) ==
  LET edited ==
        IF field = "partition_type"
        THEN IF value = "CustomCounter" /\ group.partition_type # "CustomCounter"
             THEN ManagedGroup(group.id, value, DecStr[1], <<>>)
             ELSE IF value # "CustomCounter" /\ group.partition_type = "CustomCounter"
             THEN ManagedGroup(group.id, value,
                               formatToDateInput(z, Str(toISOString[clock])),
                               formatToDateInput(z, Str(toISOString[setFullYear[z, clock, 1]])))
             ELSE [group EXCEPT !.partition_type = value]
        ELSE [group EXCEPT ![field] = value]
  IN IF edited.partition_type = "CustomCounter"
        /\ (edited.start_date = <<>> \/ ~AllDigits[edited.start_date])
     THEN [edited EXCEPT !.start_date = DecStr[1]]
     ELSE edited

\* what the server stores for a posted body, and answers
storedGroup(payload, created) ==
  [id |-> payload.id, created_type |-> created, partition_type |-> payload.partition_type,
   start_date |-> payload.start_date, end_date |-> payload.end_date,
   start_value |-> payload.start_value, end_value |-> payload.end_value]

\* the groups the server holds when the manager is opened
ServerGroups ==
  {storedGroup([id |-> 1, partition_type |-> "Daily",
                start_date |-> Str(toISOString[Instant[2025, 1, 1, 0]]),
                end_date |-> Str(toISOString[Instant[2025, 3, 1, 0]]),
                start_value |-> Undefined, end_value |-> Undefined], "Daily"),
   storedGroup([id |-> 1, partition_type |-> "CustomCounter",
                start_date |-> Undefined, end_date |-> Undefined,
                start_value |-> Num(1), end_value |-> Num(5)], "CustomCounter")}

\* loadGroupAndGoals: the groups of the squad arrive
GroupLoaded ==
  /\ isGroupLoading
  /\ activeGroup' = loadedGroup(serverGroup, zone)
  /\ isGroupLoading' = FALSE
  /\ UNCHANGED <<hasGroupChanged, groupTimer, groupSaves, serverGroup, entryVars, historyVars>>

\* the admin edits a field of the configuration; the debounce effect
\* replaces the pending timeout
handleGroupConfigChange(field, value) ==
  /\ activeGroup # NoGroup
  /\ activeGroup' = updatedGroup(activeGroup, field, value, zone, now)
  /\ hasGroupChanged' = TRUE
  /\ groupTimer' = ~isGroupLoading
  /\ UNCHANGED <<isGroupLoading, groupSaves, serverGroup, entryVars, historyVars>>

\* the timeout of the debounce effect fires: saveGroup(activeGroup) posts
GroupTimerFire ==
  /\ groupTimer
  /\ Len(groupSaves) < MaxGroupSaves
  /\ groupTimer' = FALSE
  /\ groupSaves' = Append(groupSaves, [payload |-> groupPayload(activeGroup, now), groupData |-> activeGroup])
  /\ UNCHANGED <<activeGroup, hasGroupChanged, isGroupLoading, serverGroup, entryVars, historyVars>>

\* the server stores the posted group and answers with it
GroupSaveDone(i) ==
  /\ i \in 1..Len(groupSaves)
  /\ \E saved \in {storedGroup(groupSaves[i].payload, serverGroup.created_type)} :
       /\ serverGroup' = saved
       /\ activeGroup' = savedToActive(saved, groupSaves[i].groupData, zone)
  /\ hasGroupChanged' = FALSE
  /\ groupTimer' = FALSE
  /\ groupSaves' = RemoveAt(groupSaves, i)
  /\ UNCHANGED <<isGroupLoading, entryVars, historyVars>>

\* the server refuses the posted group, or the request fails
GroupSaveFail(i) ==
  /\ i \in 1..Len(groupSaves)
  /\ groupSaves' = RemoveAt(groupSaves, i)
  /\ UNCHANGED <<activeGroup, hasGroupChanged, isGroupLoading, groupTimer, serverGroup, entryVars, historyVars>>

\* the manager after its first render: the request for the groups is in flight
InitManager ==
  /\ EntryUnmounted({UTCZone, BerlinZone})
  /\ HistoryUnmounted
  /\ activeGroup = NoGroup
  /\ hasGroupChanged = FALSE
  /\ isGroupLoading = TRUE
  /\ groupTimer = FALSE
  /\ groupSaves = <<>>
  /\ serverGroup \in ServerGroups

NextManager ==
  \/ GroupLoaded
  \/ \E value \in ManagerTypes : handleGroupConfigChange("partition_type", value)
  \/ \E field \in {"start_date", "end_date"} :
       \E value \in (IF activeGroup # NoGroup /\ activeGroup.partition_type = "CustomCounter"
                     THEN CounterInputs ELSE DateInputs) :
         handleGroupConfigChange(field, value)
  \/ GroupTimerFire
  \/ \E i \in 1..MaxGroupSaves : GroupSaveDone(i)
  \/ \E i \in 1..MaxGroupSaves : GroupSaveFail(i)

SpecManager == InitManager /\ [][NextManager]_vars

\* C19: the partition scheme of a goal group never changes after creation.
\* Whatever the admin edits, every body posted for the existing group carries
\* the partition_type the group was created with, and so does the group the
\* server stores.
C19_PartitionTypeNeverChanges ==
  /\ \A i \in 1..Len(groupSaves) :
       groupSaves[i].payload.id = serverGroup.id =>
         groupSaves[i].payload.partition_type = serverGroup.created_type
  /\ serverGroup.partition_type = serverGroup.created_type

\* a range whose end is present starts no later than it ends: counters as
\* numbers, dates as instants
RangeOrdered(start, end) ==
  IF end.k = "num" THEN start.k = "num" => start.n <= end.n
  ELSE IF end.k = "str" /\ end.s # <<>> /\ ParseDate[SplitFirst[end.s, ChT]].ok
       THEN start.k = "str" /\ ParseDate[SplitFirst[start.s, ChT]].ok =>
              ParseDate[SplitFirst[start.s, ChT]].t <= ParseDate[SplitFirst[end.s, ChT]].t
  ELSE TRUE

\* C20: range ordering.  In every configuration the manager posts after any
\* sequence of start and end edits, and in the group the server then stores,
\* rangeStart <= rangeEnd whenever rangeEnd is present.
C20_RangeStartNotAfterEnd ==
  /\ \A i \in 1..Len(groupSaves) :
       /\ RangeOrdered(groupSaves[i].payload.start_value, groupSaves[i].payload.end_value)
       /\ RangeOrdered(groupSaves[i].payload.start_date, groupSaves[i].payload.end_date)
  /\ RangeOrdered(serverGroup.start_value, serverGroup.end_value)
  /\ RangeOrdered(serverGroup.start_date, serverGroup.end_date)

\* C21: calendar validation compares parsed values.  For a Minute or Hourly
\* group a timestamp string is valid exactly when the instant it denotes lies
\* between the start of the group and the earlier of its end and now, and the
\* range check of changeBoundary accepts a candidate timestamp exactly then:
\* strings are ordered as the instants they denote, not lexicographically.
C21_ValidationComparesInstants ==
  goals # NoGoals /\ GoalList(goals)[1].partition_type \in {"Minute", "Hourly"} =>
    LET g == GoalList(goals)[1]
        instantOf(cs) ==
          IF Len(cs) = 16
          THEN LocalToUTC[zone, ParseDate[SubSeq(cs, 1, 10)].t + DigitsValue[SubSeq(cs, 12, 13)]]
          ELSE ParseDate[cs].t
        start == instantOf(g.start_date)
        configuredEnd == IF Truthy(g.end_date) THEN instantOf(g.end_date) ELSE FarFuture
        end == IF configuredEnd < now THEN configuredEnd ELSE now
    IN \A t \in {base + d : base \in {start, end}, d \in {-30, -5, 5, 30}} :
         /\ isBoundaryValid(Str(toISOString[t]), Context) = (start <= t /\ t <= end)
         /\ (setCandidate(currentBoundary, Context, Str(toISOString[t])) = Str(toISOString[t]))
              = (start <= t /\ t <= end)

\* C22: the sequence is strictly ascending.  For every calendar group, clock
\* and host time zone each key of calculateBoundaries is strictly greater
\* than the key before it, so no key occurs twice.
C22_SequenceStrictlyAscending ==
  goals # NoGoals /\ ~Context.isCounter =>
    LET keys == calculateBoundaries(Context, now, zone)
    IN \A i \in 1..(Len(keys) - 1) : StrLess[keys[i], keys[i + 1]]

\* C23: the sequencer terminates for every configuration.  For a group with
\* an unparsable start or end, a start after its end or an unknown scheme,
\* calculateBoundaries returns a finite sequence of date keys and does not
\* throw: it is empty when start or end is no date or the start is after the
\* earlier of end and now, it has at most one key per 23 hours of the range
\* otherwise, and (an unknown scheme steps like Daily) it stops less than two
\* days before the earlier of end and now.
C23_SequencerTerminates ==
  LET within(keys, first, last, limit) ==
        /\ \A i \in 1..Len(keys) : IsDateOnly[keys[i]] /\ ParseDate[keys[i]].ok
        /\ ~(first.ok /\ last.ok /\ first.t <= limit) => keys = <<>>
        /\ first.ok /\ last.ok /\ first.t <= limit =>
             /\ Len(keys) >= 1
             /\ Len(keys) <= (limit - first.t) \div 23 + 1
             /\ Context.type \notin {"Weekly", "BiWeekly", "Monthly"} =>
                  limit - ParseDate[keys[Len(keys)]].t < 2 * HoursPerDay
      earlier(t, u) == IF t < u THEN t ELSE u
  IN goals # NoGoals /\ ~Context.isCounter =>
       within(calculateBoundaries(Context, now, zone), ParseDate[Context.start.s], ParseDate[Context.end.s],
              earlier(ParseDate[Context.end.s].t, now))

\* the group with the unparsable end, opened: the sequence is empty and the
\* page falls back to the start of the group
C23_Witness ==
  /\ goals = "badEnd"
  /\ calculateBoundaries(Context, now, zone) = <<>>
  /\ currentBoundary = Context.start
  /\ ~loading

\* C24: checkbox goals write immediately.  Every toggle of a boolean or
\* achieved goal at a valid boundary issues a submitEntry request in the
\* same step, carrying "True" or "False" for the goal, and neither sets nor
\* waits for the debounce timer.
C24_CheckboxWritesImmediately ==
  [][\A goalId \in GoalIds :
       handleCheckboxChange(goalId) =>
         /\ Len(submits') = Len(submits) + 1
         /\ goalId \in DOMAIN submits'[Len(submits')].entries
         /\ submits'[Len(submits')].entries[goalId].value \in {Str(TrueStr), Str(FalseStr)}
         /\ submits'[Len(submits')].date = currentBoundary
         /\ saveTimer' = saveTimer]_vars

\* C25: what the payload holds.  Whenever a submitEntry request is issued,
\* its payload has an entry for a goal exactly when the goal's value or its
\* note in the saved form state is non-null after trimming; the entry
\* carries the trimmed value, or null when it is blank, and the trimmed
\* note, or null: a note with a blank value is sent as {value: null, note},
\* a goal with both blank is left out.
C25_PayloadHoldsNonEmptyEntries ==
  [][Len(submits') = Len(submits) + 1 =>
       LET saved(id) == IF lastSave'.via = "timer" THEN saveTimer.newState[id] ELSE entriesState'[id]
           blank(v) == v.k # "str" \/ Trim[v.s] = <<>>
           checkbox(id) == isBooleanType(GoalList(goals)[GoalIndex(GoalList(goals), id)].type)
           sent == submits'[Len(submits')].entries
       IN \A id \in GoalIds :
            /\ (id \in DOMAIN sent) = (~blank(saved(id).value) \/ ~blank(saved(id).note))
            /\ id \in DOMAIN sent =>
                 /\ sent[id].value =
                      (IF blank(saved(id).value) THEN Null
                       ELSE IF checkbox(id) THEN saved(id).value
                       ELSE Str(Trim[saved(id).value.s]))
                 /\ sent[id].note =
                      (IF blank(saved(id).note) THEN Null ELSE Str(Trim[saved(id).note.s]))]_vars

\* a request in flight that carries a note without a value for the count
\* goal, next to the checkbox goal's value
C25_Witness ==
  \E i \in 1..Len(submits) :
    /\ "c1" \in DOMAIN submits[i].entries
    /\ submits[i].entries["c1"] = [value |-> Null, note |-> Str(<<110>>)]
    /\ "b1" \in DOMAIN submits[i].entries

\* the page with its timers firing and its requests answered: the debounce
\* timeout elapses, every request gets its response
SpecLive ==
  /\ Spec
  /\ WF_vars(TimerFire)
  /\ WF_vars(\E i \in 1..MaxInFlight : SaveDone(i))
  /\ WF_vars(\E i \in 1..MaxInFlight : GoalsArrive(i))
  /\ WF_vars(\E i \in 1..MaxInFlight : FetchDone(i))

\* the form states of the page of one Daily squad
Snapshots ==
  {[c1 |-> [value |-> value, note |-> note], b1 |-> [value |-> checked, note |-> Str(<<>>)]] :
     value \in {Str(<<>>), Str(<<55>>), Str(<<56>>)}, note \in {Str(<<>>), Str(<<110>>)},
     checked \in {Str(TrueStr), Str(FalseStr)}}

\* C26: no edit is lost.  When an edit of a value or a note has put a form
\* state into the debounce timer, a submitEntry request for the current
\* boundary with the payload of that state is eventually issued, unless a
\* later edit replaces the state in the timer.
C26_NoEditLost ==
  \A snapshot \in Snapshots :
    (saveTimer.pending /\ saveTimer.newState = snapshot)
      ~> (\/ \E i \in 1..Len(submits) :
               /\ submits[i].date = currentBoundary
               /\ submits[i].entries = payloadEntries(GoalList(goals), snapshot)
          \/ saveTimer.pending /\ saveTimer.newState # snapshot)

\* C27: writes are not reordered against edits.  The payload a debounced
\* save sends is the payload of the form as it is shown when the timer
\* fires: a save scheduled before a checkbox toggle does not write its older
\* snapshot after the toggle's write.
C27_WritesFollowEdits ==
  [][Len(submits') = Len(submits) + 1 /\ saveTimer.pending /\ ~saveTimer'.pending =>
       submits'[Len(submits')].entries = payloadEntries(GoalList(goals), entriesState)]_vars

\* ------------------------------------------------------------------------
\* The boundary chosen at initialisation
\* ------------------------------------------------------------------------
\* the initial-boundary effect has just set the current boundary
InitialBoundaryChosen == currentBoundary.k = "null" /\ currentBoundary'.k # "null"

RangeEmpty(ctx) ==
  /\ ctx.end.k # "null"
  /\ IF ctx.isCounter THEN JsGreater(ToNumber(ctx.start), ToNumber(ctx.end))
     ELSE JsGreater(ctx.start, ctx.end)

C29_NextDisabledIffRefused ==
  goals # NoGoals /\ isBoundaryValid(currentBoundary, Context) =>
    (~isAtEndBoundary(currentBoundary, Context)
       <=> changeBoundary(currentBoundary, Context, 1) # currentBoundary)

\* ------------------------------------------------------------------------
\* The debounced save of the group configuration
\* ------------------------------------------------------------------------
\* the configuration shown is the one the server stores: posting what is
\* shown would store what is stored already
ShownIsStored ==
  serverGroup = storedGroup(groupPayload(activeGroup, now), serverGroup.created_type)

\* C30: no edit of the group configuration is lost.  When a saveGroup request
\* is answered and nothing was edited since it was sent, the configuration
\* stored is the one shown and hasGroupChanged becomes false; when an edit
\* was made while the request was in flight, the response does not overwrite
\* it, hasGroupChanged stays true and the debounce timer stays pending, so
\* that the edit is saved in turn.
C30_NoGroupEditLost ==
  [][\A i \in 1..Len(groupSaves) :
       GroupSaveDone(i) =>
         IF activeGroup = groupSaves[i].groupData
         THEN ShownIsStored' /\ ~hasGroupChanged'
         ELSE activeGroup' = activeGroup /\ hasGroupChanged' /\ groupTimer']_vars

====
